---- MODULE Spec2Model ----
(***************************************************************************)
(* TaskFT0TOF::monitorData (Modules/PID/src/TaskFT0TOF.cxx): the loop that *)
(* groups the time-sorted TOF tracks of one timeframe into interaction     *)
(* candidates, selects for each candidate the FT0 rec points within 8 BCs  *)
(* with the advancing index ift0, and hands both to processEvent.          *)
(*                                                                         *)
(* Times are integer picoseconds (the code uses double).  A track is its   *)
(* TOF signal (time); the copy put into a candidate also carries the index *)
(* of the track in the sorted mMyTracks (id).  An FT0 rec point is its     *)
(* interaction record (orbit, bc).                                         *)
(*                                                                         *)
(* Further specifications of this module: SpecEvent (processEvent and      *)
(* reset of the same task, with the histograms as entry counts), SpecTies  *)
(* (two outcomes of the unstable sort of the tracks), SpecSelect (the      *)
(* track selection in front of the loop), SpecReader and FairSpecReader    *)
(* (the MFT clusters root file reader) and SpecSource (RootFileSource).    *)
(* Each runs one part of the program and leaves the variables of the       *)
(* others at rest.                                                         *)
(***************************************************************************)
EXTENDS Integers, Sequences, FiniteSets

\* ---------------------------------------------------------------- bounds
\* Largest number of selected tracks (mMyTracks) of a timeframe.
MaxTracks == 3
\* Largest number of FT0 rec points of a timeframe.
MaxFT0 == 2
\* firstTForbit of the timeframe (TimingInfo), read at line 357.
FirstTForbit == 1

\* ------------------------------------------------------- program constants
\* 100E3 ps, the literal of the admission test (line 370).
GAP_THRESHOLD == 100000
\* o2::tof::Geo::BC_TIME_INPS (24950.9 ps), rounded to integer ps.
BC_TIME_INPS == 24951
\* The window half width in BCs, the literal 8 of lines 381-382.
MATCH_WINDOW_BC == 8
\* o2::constants::lhc::LHCMaxBunches.
LHCMaxBunches == 3564
\* Modulus of the uint32_t arithmetic of lines 385-386.  The width is scaled
\* from 32 to 16 bits so that every product stays inside TLC's integers; a
\* difference below zero still wraps to the top of the range.
UInt32Mod == 65536

\* ------------------------------------------------------------ input domains
\* TOF signals of the selected tracks: the anchor-versus-previous scenario
\* (0, 60000, 110000), a track exactly GAP_THRESHOLD after another (210000)
\* and a late track whose window starts exactly on BC 8, where the window of
\* a track at 0 ends.
TrackTimes == {0, 60000, 110000, 210000, 16 * BC_TIME_INPS}

\* Interaction records of FT0 rec points: four BCs of the timeframe's first
\* orbit, and one rec point of the orbit before firstTForbit.
FT0Records ==
  {[orbit |-> FirstTForbit, bc |-> b] : b \in {0, 5, 8, 9}}
    \cup {[orbit |-> FirstTForbit - 1, bc |-> 0]}

SeqsUpTo(S, n) == UNION {[1..k -> S] : k \in 0..n}

VARIABLES
  pc,          \* position inside monitorData
  mUseFT0,     \* custom parameter useFT0
  mMyTracks,   \* selected tracks, sorted in place at line 349
  ft0Sorted,   \* copy of the "recpoints" input, sorted in place at line 352
  i,           \* index of the outer and inner loop (0-based)
  tracks,      \* tracks of the current candidate
  ntrk,        \* track counter of the current candidate
  time,        \* TOF signal of the candidate's first track
  ft0Cand,     \* FT0 candidates of the current candidate
  ift0,        \* first FT0 index still to be looked at (0-based)
  j,           \* index of the FT0 loop (0-based)
  calls,       \* arguments of the processEvent calls made so far
  advances     \* history: the indices j at which ift0 = j + 1 was executed

\* processEvent and reset (lines 424-530): the monitor objects.
VARIABLES
  hist,        \* entries of each histogram created in initialize
  nEvents,     \* history: number of processEvent calls so far
  last         \* history: inputs and outputs of the latest processEvent call

\* MFTClustersRootFileReader (Modules/MFT/src/runMFTClustersRootFileReader.cxx).
VARIABLES
  mftFile,      \* the tree "o2sim": one entry per TF, each a list of ROF records
  mNumberOfTF,  \* number of TFs found by init
  mCurrentTF,   \* index of the TF to read next (0-based)
  mCurrentROF,  \* index of the ROF to publish next (0-based)
  mNumberOfROF, \* number of ROFs of the TF read last
  mftOut,       \* history: what each run call published
  mftState      \* "running", "ended" (endOfStream and readyToQuit) or "crashed"

\* Two runs of the std::sort of line 349 on the same selected tracks.
VARIABLES
  tiePc,       \* "input", "sorted" or "clustered"
  tieTracks,   \* the selected tracks, each with its position in the selection
  tieA,        \* one outcome of the sort, then its candidates
  tieB         \* another outcome of the sort, then its candidates

\* monitorData, track selection (lines 226-339): which member container each
\* block assigns from the timeframe and which it indexes.
VARIABLES
  mSrc,        \* the loaded TOF-matched sources (GID-Source, checked in initialize)
  selPc,       \* the block monitorData is in front of, "idle" or "crashed"
  mTF,         \* timeframe counter, -1 before the first call (line 227)
  assigned,    \* history: per container, the timeframe it was last assigned in
  hasMatch,    \* per source, whether the timeframe holds a match (line 245)
  indexed      \* history: the container reads operator[] made so far

\* RootFileSource::run (Framework/src/RootFileSource.cxx).
VARIABLES
  rootFile,        \* the file: its status and its top-level keys
  allowedOutputs,  \* bindings of the declared outputs (lines 41-45)
  srcPc,           \* "open", "keys", "dir", "quit" or "thrown"
  iKey,            \* top-level keys gone through so far
  iObj,            \* keys of the current directory gone through so far
  snapshots,       \* history: the names given to ctx.outputs().snapshot
  handled          \* history: what became of each stored object, in order

monitorVars == <<pc, mUseFT0, mMyTracks, ft0Sorted, i, tracks, ntrk, time,
                 ft0Cand, ift0, j, calls, advances>>
histVars == <<hist, nEvents, last>>
readerVars == <<mftFile, mNumberOfTF, mCurrentTF, mCurrentROF, mNumberOfROF,
                mftOut, mftState>>
tieVars == <<tiePc, tieTracks, tieA, tieB>>
selVars == <<mSrc, selPc, mTF, assigned, hasMatch, indexed>>
sourceVars == <<rootFile, allowedOutputs, srcPc, iKey, iObj, snapshots, handled>>

vars == <<monitorVars, histVars, readerVars, tieVars, selVars, sourceVars>>

\* ----------------------------------------------------------------- helpers
tofSignalDouble(t) == t.time

\* InteractionRecord::bc2ns orders records as orbit * LHCMaxBunches + bc.
bc2ns(ir) == ir.orbit * LHCMaxBunches + ir.bc

\* The arrangements of the positions in S, as sequences.
RECURSIVE Arrangements(_)
Arrangements(S) ==
  IF S = {}
  THEN {<<>>}
  ELSE UNION {{<<x>> \o p : p \in Arrangements(S \ {x})} : x \in S}

\* Variant: the tracks are left in selection order (no sort at line 349).
SortedByTofSignal_Unsorted(s) == TRUE

\* The comparator of line 350, as the post-condition of std::sort.
SortedByTofSignal(s) ==
  \A a \in 1..Len(s) - 1 :
    ~(tofSignalDouble(s[a + 1]) < tofSignalDouble(s[a]))

\* The comparator of line 353, as the post-condition of std::sort.
SortedByBc2ns(s) ==
  \A a \in 1..Len(s) - 1 : ~(bc2ns(s[a + 1]) < bc2ns(s[a]))

\* std::sort is not stable: any ordered permutation may come out.
Permutations(s) ==
  {[k \in 1..Len(s) |-> s[p[k]]] : p \in Arrangements(1..Len(s))}

\* Lines 349-350 and lines 352-353.
SortTracks(s) == {r \in Permutations(s) : SortedByTofSignal(r)}
SortFT0(s) == {r \in Permutations(s) : SortedByBc2ns(r)}

\* Lines 385-386: orbit relative to firstTForbit in uint32_t, then the BC time.
RelOrbit(ir) == (ir.orbit - FirstTForbit) % UInt32Mod
BCtimeFT0(ir) ==
  ((RelOrbit(ir) * LHCMaxBunches + ir.bc) % UInt32Mod) * BC_TIME_INPS

\* Lines 381-382.
firstTime == tofSignalDouble(tracks[1]) - MATCH_WINDOW_BC * BC_TIME_INPS
lastTime == tofSignalDouble(tracks[ntrk]) + MATCH_WINDOW_BC * BC_TIME_INPS

\* Variant: >= instead of > in the admission test.
TooLate_AtThreshold(timeCurrent, t) == timeCurrent - t >= GAP_THRESHOLD

\* Line 370: the admission test against the candidate's first track.
TooLate(timeCurrent, t) == timeCurrent - t > GAP_THRESHOLD

\* Variant: >= instead of > at the end of the window.
AfterWindow_Exclusive(t) == t >= lastTime

\* Variant: <= instead of < at the start of the window.
BeforeWindow_Inclusive(t) == t <= firstTime

\* Line 388 and line 392: the two tests of the FT0 loop.
BeforeWindow(t) == t < firstTime
AfterWindow(t) == t > lastTime

\* The element emplaced into ft0Cand at line 401.
Candidate(ir) == [bc |-> ir.bc, orbit |-> RelOrbit(ir)]

\* -------------------------------------------------------------- histograms
\* The histograms created in initialize (lines 147-172), by their names.
TrackHists ==
  {"DeltatPi", "DeltatKa", "DeltatPr", "DeltatPi_Pt", "DeltatKa_Pt",
   "DeltatPr_Pt", "HadronMasses", "BetavsP", "HadronMassesvsP", "EvTimeTOF"}
MidPHists == {"DeltatPiEvtimeRes", "DeltatPiEvTimeMult", "EvTimeResEvTimeMult"}
FT0Hists ==
  {"EvTimeTOFVsFT0AC", "EvTimeTOFVsFT0A", "EvTimeTOFVsFT0C",
   "DeltaEvTimeTOFVsFT0AC", "DeltaEvTimeTOFVsFT0A", "DeltaEvTimeTOFVsFT0C"}
SameBCHists ==
  {"EvTimeTOFVsFT0ACSameBC", "EvTimeTOFVsFT0ASameBC", "EvTimeTOFVsFT0CSameBC",
   "DeltaEvTimeTOFVsFT0ACSameBC", "DeltaEvTimeTOFVsFT0ASameBC",
   "DeltaEvTimeTOFVsFT0CSameBC"}
DeltaBCHists == {"DeltaBCTOFFT0"}
HistNames ==
  TrackHists \cup MidPHists \cup FT0Hists \cup SameBCHists \cup DeltaBCHists

\* No processEvent call yet.
NoCall == [tracks |-> <<>>, ft0Cand |-> <<>>]

\* ------------------------------------------------------------ parts at rest
\* Each specification runs one part of the program and leaves the others in
\* these states.
\* Track selection: the four TOF-matched sources monitorData goes through and
\* the member containers (gsl::span, lines 661-671) their blocks index.
TOFSources == {"TPCTOF", "ITSTPCTOF", "TPCTRDTOF", "ITSTPCTRDTOF"}
Containers == {"mTPCTracks", "mITSTPCTracks", "mTPCTRDTracks", "mITSTPCTRDTracks"}

MonitorAtRest ==
  /\ pc = "done"
  /\ mUseFT0 = FALSE
  /\ mMyTracks = <<>>
  /\ ft0Sorted = <<>>
  /\ i = 0
  /\ tracks = <<>>
  /\ ntrk = 0
  /\ time = 0
  /\ ft0Cand = <<>>
  /\ ift0 = 0
  /\ j = 0
  /\ calls = <<>>
  /\ advances = <<>>

HistAtRest ==
  /\ hist = [h \in HistNames |-> 0]
  /\ nEvents = 0
  /\ last = NoCall

ReaderAtRest ==
  /\ mftFile = <<>>
  /\ mNumberOfTF = 0
  /\ mCurrentTF = 0
  /\ mCurrentROF = 0
  /\ mNumberOfROF = 0
  /\ mftOut = <<>>
  /\ mftState = "ended"

TieAtRest ==
  /\ tiePc = "clustered"
  /\ tieTracks = <<>>
  /\ tieA = <<>>
  /\ tieB = <<>>

SelectAtRest ==
  /\ mSrc = {}
  /\ selPc = "idle"
  /\ mTF = -1
  /\ assigned = [c \in Containers |-> -1]
  /\ hasMatch = [s \in TOFSources |-> FALSE]
  /\ indexed = {}

SourceAtRest ==
  /\ rootFile = [status |-> "open", keys |-> <<>>]
  /\ allowedOutputs = {}
  /\ srcPc = "quit"
  /\ iKey = 0
  /\ iObj = 0
  /\ snapshots = <<>>
  /\ handled = <<>>

\* -------------------------------------------------------------------- Init
\* monitorData in front of line 349: the selected tracks in selection order,
\* and ft0Sorted the copy of the FT0 input (lines 342-345), left empty when
\* useFT0 is off.
Init ==
  /\ pc = "sort"
  /\ mUseFT0 \in BOOLEAN
  /\ \E ts \in SeqsUpTo(TrackTimes, MaxTracks) :
       mMyTracks = [k \in 1..Len(ts) |-> [time |-> ts[k]]]
  /\ ft0Sorted \in (IF mUseFT0 THEN SeqsUpTo(FT0Records, MaxFT0) ELSE {<<>>})
  /\ i = 0
  /\ tracks = <<>>
  /\ ntrk = 0
  /\ time = 0
  /\ ft0Cand = <<>>
  /\ ift0 = 0
  /\ j = 0
  /\ calls = <<>>
  /\ advances = <<>>
  /\ HistAtRest
  /\ ReaderAtRest
  /\ TieAtRest
  /\ SelectAtRest
  /\ SourceAtRest

\* ----------------------------------------------------------------- actions
\* Lines 349-357: sort both lists in place, ift0 = 0.
SortInputs ==
  /\ pc = "sort"
  /\ mMyTracks' \in SortTracks(mMyTracks)
  /\ ft0Sorted' \in SortFT0(ft0Sorted)
  /\ ift0' = 0
  /\ i' = 0
  /\ pc' = "outer"
  /\ UNCHANGED <<mUseFT0, tracks, ntrk, time, ft0Cand, j, calls, advances>>
  /\ UNCHANGED <<histVars, readerVars, tieVars, selVars, sourceVars>>

\* The copy of mMyTracks[a] (0-based) that emplace_back puts into tracks.
TrackAt(a) == [id |-> a, time |-> tofSignalDouble(mMyTracks[a + 1])]

\* Variant: the FT0 index is set back to 0 for every candidate.
StartCandidate_ResetCursor ==
  /\ pc = "outer"
  /\ i < Len(mMyTracks)
  /\ tracks' = <<TrackAt(i)>>
  /\ ft0Cand' = <<>>
  /\ ntrk' = 1
  /\ time' = tofSignalDouble(mMyTracks[i + 1])
  /\ ift0' = 0
  /\ pc' = "inner"
  /\ UNCHANGED <<mUseFT0, mMyTracks, ft0Sorted, i, j, calls, advances>>
  /\ UNCHANGED <<histVars, readerVars, tieVars, selVars, sourceVars>>

\* Variant: the FT0 candidates of the candidate before are kept.
StartCandidate_KeepsCandidates ==
  /\ pc = "outer"
  /\ i < Len(mMyTracks)
  /\ tracks' = <<TrackAt(i)>>
  /\ ntrk' = 1
  /\ time' = tofSignalDouble(mMyTracks[i + 1])
  /\ pc' = "inner"
  /\ UNCHANGED <<mUseFT0, mMyTracks, ft0Sorted, i, ft0Cand, ift0, j, calls,
                 advances>>
  /\ UNCHANGED <<histVars, readerVars, tieVars, selVars, sourceVars>>

\* Lines 361-367: open a candidate with the track at i.
StartCandidate ==
  /\ pc = "outer"
  /\ i < Len(mMyTracks)
  /\ tracks' = <<TrackAt(i)>>
  /\ ft0Cand' = <<>>
  /\ ntrk' = 1
  /\ time' = tofSignalDouble(mMyTracks[i + 1])
  /\ pc' = "inner"
  /\ UNCHANGED <<mUseFT0, mMyTracks, ft0Sorted, i, ift0, j, calls, advances>>
  /\ UNCHANGED <<histVars, readerVars, tieVars, selVars, sourceVars>>

\* Lines 377-383 after the inner loop: the FT0 loop (j = ift0) when ntrk > 0
\* and useFT0 is on, else straight to line 405.
AfterInner(n) ==
  IF n > 0 /\ mUseFT0 THEN "scan" ELSE "process"

\* Lines 368-376, one iteration that admits the track at i.
InnerAdmit ==
  /\ pc = "inner"
  /\ i < Len(mMyTracks)
  /\ ~TooLate(tofSignalDouble(mMyTracks[i + 1]), time)
  /\ tracks' = Append(tracks, TrackAt(i))
  /\ ntrk' = ntrk + 1
  /\ i' = i + 1
  /\ UNCHANGED <<pc, mUseFT0, mMyTracks, ft0Sorted, time, ft0Cand,
                 ift0, j, calls, advances>>
  /\ UNCHANGED <<histVars, readerVars, tieVars, selVars, sourceVars>>

\* Lines 370-373: the track at i is too late, i-- and break.
InnerBreak ==
  /\ pc = "inner"
  /\ i < Len(mMyTracks)
  /\ TooLate(tofSignalDouble(mMyTracks[i + 1]), time)
  /\ i' = i - 1
  /\ j' = ift0
  /\ pc' = AfterInner(ntrk)
  /\ UNCHANGED <<mUseFT0, mMyTracks, ft0Sorted, tracks, ntrk, time,
                 ft0Cand, ift0, calls, advances>>
  /\ UNCHANGED <<histVars, readerVars, tieVars, selVars, sourceVars>>

\* Line 368: the inner loop runs off the end of mMyTracks.
InnerEnd ==
  /\ pc = "inner"
  /\ ~(i < Len(mMyTracks))
  /\ j' = ift0
  /\ pc' = AfterInner(ntrk)
  /\ UNCHANGED <<mUseFT0, mMyTracks, ft0Sorted, i, tracks, ntrk, time,
                 ft0Cand, ift0, calls, advances>>
  /\ UNCHANGED <<histVars, readerVars, tieVars, selVars, sourceVars>>

\* Variant: ift0 = j instead of ift0 = j + 1.
ScanSkip_NoProgress ==
  /\ pc = "scan"
  /\ j < Len(ft0Sorted)
  /\ BeforeWindow(BCtimeFT0(ft0Sorted[j + 1]))
  /\ ift0' = j
  /\ advances' = Append(advances, j)
  /\ j' = j + 1
  /\ UNCHANGED <<pc, mUseFT0, mMyTracks, ft0Sorted, i, tracks, ntrk,
                 time, ft0Cand, calls>>
  /\ UNCHANGED <<histVars, readerVars, tieVars, selVars, sourceVars>>

\* Lines 388-391: the rec point is before the window, move ift0 behind it.
ScanSkip ==
  /\ pc = "scan"
  /\ j < Len(ft0Sorted)
  /\ BeforeWindow(BCtimeFT0(ft0Sorted[j + 1]))
  /\ ift0' = j + 1
  /\ advances' = Append(advances, j)
  /\ j' = j + 1
  /\ UNCHANGED <<pc, mUseFT0, mMyTracks, ft0Sorted, i, tracks, ntrk,
                 time, ft0Cand, calls>>
  /\ UNCHANGED <<histVars, readerVars, tieVars, selVars, sourceVars>>

\* Variant: ift0 is moved behind the rec point that ends the scan.
ScanBreak_Advance ==
  /\ pc = "scan"
  /\ j < Len(ft0Sorted)
  /\ ~BeforeWindow(BCtimeFT0(ft0Sorted[j + 1]))
  /\ AfterWindow(BCtimeFT0(ft0Sorted[j + 1]))
  /\ ift0' = j + 1
  /\ pc' = "process"
  /\ UNCHANGED <<mUseFT0, mMyTracks, ft0Sorted, i, tracks, ntrk, time,
                 ft0Cand, j, calls, advances>>
  /\ UNCHANGED <<histVars, readerVars, tieVars, selVars, sourceVars>>

\* Lines 392-394: the rec point is after the window, break.
ScanBreak ==
  /\ pc = "scan"
  /\ j < Len(ft0Sorted)
  /\ ~BeforeWindow(BCtimeFT0(ft0Sorted[j + 1]))
  /\ AfterWindow(BCtimeFT0(ft0Sorted[j + 1]))
  /\ pc' = "process"
  /\ UNCHANGED <<mUseFT0, mMyTracks, ft0Sorted, i, tracks, ntrk, time,
                 ft0Cand, ift0, j, calls, advances>>
  /\ UNCHANGED <<histVars, readerVars, tieVars, selVars, sourceVars>>

\* Variant: ift0 is moved behind every matched rec point.
ScanMatch_Advance ==
  /\ pc = "scan"
  /\ j < Len(ft0Sorted)
  /\ ~BeforeWindow(BCtimeFT0(ft0Sorted[j + 1]))
  /\ ~AfterWindow(BCtimeFT0(ft0Sorted[j + 1]))
  /\ ft0Cand' = Append(ft0Cand, Candidate(ft0Sorted[j + 1]))
  /\ ift0' = j + 1
  /\ j' = j + 1
  /\ UNCHANGED <<pc, mUseFT0, mMyTracks, ft0Sorted, i, tracks, ntrk,
                 time, calls, advances>>
  /\ UNCHANGED <<histVars, readerVars, tieVars, selVars, sourceVars>>

\* Lines 398-401: the rec point is inside the window, keep it.
ScanMatch ==
  /\ pc = "scan"
  /\ j < Len(ft0Sorted)
  /\ ~BeforeWindow(BCtimeFT0(ft0Sorted[j + 1]))
  /\ ~AfterWindow(BCtimeFT0(ft0Sorted[j + 1]))
  /\ ft0Cand' = Append(ft0Cand, Candidate(ft0Sorted[j + 1]))
  /\ j' = j + 1
  /\ UNCHANGED <<pc, mUseFT0, mMyTracks, ft0Sorted, i, tracks, ntrk,
                 time, ift0, calls, advances>>
  /\ UNCHANGED <<histVars, readerVars, tieVars, selVars, sourceVars>>

\* Line 383: the FT0 loop runs off the end of ft0Sorted.
ScanEnd ==
  /\ pc = "scan"
  /\ ~(j < Len(ft0Sorted))
  /\ pc' = "process"
  /\ UNCHANGED <<mUseFT0, mMyTracks, ft0Sorted, i, tracks, ntrk, time,
                 ft0Cand, ift0, j, calls, advances>>
  /\ UNCHANGED <<histVars, readerVars, tieVars, selVars, sourceVars>>

\* Variant: a candidate without FT0 candidates is not handed to processEvent.
ProcessEvent_OnlyWithMatches ==
  /\ pc = "process"
  /\ calls' = IF ntrk > 0 /\ ft0Cand # <<>>
               THEN Append(calls, [tracks |-> tracks, ft0Cand |-> ft0Cand])
               ELSE calls
  /\ i' = i + 1
  /\ pc' = "outer"
  /\ UNCHANGED <<mUseFT0, mMyTracks, ft0Sorted, tracks, ntrk, time,
                 ft0Cand, ift0, j, advances>>
  /\ UNCHANGED <<histVars, readerVars, tieVars, selVars, sourceVars>>

\* Lines 377 and 405, and the i++ of line 361: processEvent(tracks, ft0Cand)
\* for a candidate with ntrk > 0.
ProcessEvent ==
  /\ pc = "process"
  /\ calls' = IF ntrk > 0
               THEN Append(calls, [tracks |-> tracks, ft0Cand |-> ft0Cand])
               ELSE calls
  /\ i' = i + 1
  /\ pc' = "outer"
  /\ UNCHANGED <<mUseFT0, mMyTracks, ft0Sorted, tracks, ntrk, time,
                 ft0Cand, ift0, j, advances>>
  /\ UNCHANGED <<histVars, readerVars, tieVars, selVars, sourceVars>>

\* Lines 361 and 409-410: no track left, monitorData returns.
Finish ==
  /\ pc = "outer"
  /\ ~(i < Len(mMyTracks))
  /\ pc' = "done"
  /\ UNCHANGED <<mUseFT0, mMyTracks, ft0Sorted, i, tracks, ntrk, time,
                 ft0Cand, ift0, j, calls, advances>>
  /\ UNCHANGED <<histVars, readerVars, tieVars, selVars, sourceVars>>

Next ==
  \/ SortInputs
  \/ StartCandidate
  \/ InnerAdmit
  \/ InnerBreak
  \/ InnerEnd
  \/ ScanSkip
  \/ ScanBreak
  \/ ScanMatch
  \/ ScanEnd
  \/ ProcessEvent
  \/ Finish

Spec == Init /\ [][Next]_vars


\* ------------------------------------------------------------------ claims
\* What the claims speak about: the candidates handed to processEvent.
NumClusters == Len(calls)
Cluster(k) == calls[k].tracks
Matches(k) == calls[k].ft0Cand
ClusterTimes(k) == [m \in 1..Len(Cluster(k)) |-> tofSignalDouble(Cluster(k)[m])]
Anchor(k) == tofSignalDouble(Cluster(k)[1])
LastOf(k) == tofSignalDouble(Cluster(k)[Len(Cluster(k))])

\* The places (cluster, position) at which mMyTracks[a] (0-based) was handed over.
Places(a) ==
  {<<k, m>> \in (1..NumClusters) \X (1..MaxTracks + 2) :
     m <= Len(Cluster(k)) /\ Cluster(k)[m].id = a}

RECURSIVE SumSizes(_)
SumSizes(k) == IF k = 0 THEN 0 ELSE Len(Cluster(k)) + SumSizes(k - 1)

\* C1: when monitorData returns, every selected track is in exactly one
\* cluster, exactly once, and the cluster sizes add up to the number of tracks.
C1_ExactPartition ==
  pc = "done" =>
    /\ \A a \in 0..Len(mMyTracks) - 1 : Cardinality(Places(a)) = 1
    /\ SumSizes(NumClusters) = Len(mMyTracks)

\* C2: every track of a cluster is at most GAP_THRESHOLD after the cluster's
\* first track, and the tracks at 0, 60000 and 110000 ps come out as the
\* clusters [0, 60000] and [110000].
C2_AnchorAdmission ==
  /\ \A k \in 1..NumClusters : \A m \in 1..Len(Cluster(k)) :
       tofSignalDouble(Cluster(k)[m]) - Anchor(k) <= GAP_THRESHOLD
  /\ (pc = "done"
        /\ [m \in 1..Len(mMyTracks) |-> tofSignalDouble(mMyTracks[m])]
             = <<0, 60000, 110000>>)
       => [k \in 1..NumClusters |-> ClusterTimes(k)]
            = << <<0, 60000>>, <<110000>> >>

\* C3: the first track of each cluster is more than GAP_THRESHOLD after the
\* first track of the cluster before it, and a cluster is closed only in front
\* of a track that fails the admission test or at the end of the tracks.
C3_Maximal ==
  /\ \A k \in 1..NumClusters - 1 : Anchor(k + 1) - Anchor(k) > GAP_THRESHOLD
  /\ (pc \in {"inner", "scan", "process"} /\ NumClusters > 0)
       => tofSignalDouble(tracks[1]) - Anchor(NumClusters) > GAP_THRESHOLD
  /\ pc \in {"scan", "process"}
       => \/ i >= Len(mMyTracks)
          \/ /\ i + 2 <= Len(mMyTracks)
             /\ tofSignalDouble(mMyTracks[i + 2]) - tofSignalDouble(tracks[1])
                  > GAP_THRESHOLD

\* Two adjacent clusters that only the anchor rule separates: the later one
\* starts within GAP_THRESHOLD of the last track of the earlier one.
C3_Witness ==
  /\ pc = "done"
  /\ NumClusters >= 2
  /\ Anchor(2) - LastOf(1) <= GAP_THRESHOLD

\* The times the FT0 loop computes are non-decreasing along ft0Sorted.
ScanTimeSorted ==
  \A a \in 1..Len(ft0Sorted) - 1 :
    BCtimeFT0(ft0Sorted[a]) <= BCtimeFT0(ft0Sorted[a + 1])

WindowStart(k) == Anchor(k) - 8 * BC_TIME_INPS
WindowEnd(k) == LastOf(k) + 8 * BC_TIME_INPS
InWindowOf(ir, k) ==
  WindowStart(k) <= BCtimeFT0(ir) /\ BCtimeFT0(ir) <= WindowEnd(k)

\* The scan of all of ft0Sorted from index 0 for cluster k.
NaiveMatches(k) ==
  LET hits == SelectSeq(ft0Sorted, LAMBDA ir : InWindowOf(ir, k))
  IN  [m \in 1..Len(hits) |-> Candidate(hits[m])]

\* C4: with the rec points in time order, the FT0 candidates of every cluster
\* are exactly the rec points of its window, as a scan from index 0 finds them.
C4_CursorEqualsNaive ==
  (mUseFT0 /\ ScanTimeSorted) =>
    \A k \in 1..NumClusters : Matches(k) = NaiveMatches(k)

\* A cluster scanned from an index above 0 that still has candidates, while
\* an earlier cluster had candidates too.
C4_Witness ==
  /\ pc = "done"
  /\ ScanTimeSorted
  /\ NumClusters >= 2
  /\ ift0 > 0
  /\ Matches(1) # <<>>
  /\ Matches(NumClusters) # <<>>
  /\ Len(Matches(NumClusters)) < Len(ft0Sorted)

\* C5: every cluster has a track, its times do not decrease, and no track of
\* a later cluster is earlier than a track of an earlier cluster.
C5_Ordered ==
  /\ \A k \in 1..NumClusters : Len(Cluster(k)) > 0
  /\ \A k \in 1..NumClusters : \A m \in 1..Len(Cluster(k)) - 1 :
       tofSignalDouble(Cluster(k)[m]) <= tofSignalDouble(Cluster(k)[m + 1])
  /\ \A k1, k2 \in 1..NumClusters :
       k1 < k2 =>
         \A m1 \in 1..Len(Cluster(k1)) : \A m2 \in 1..Len(Cluster(k2)) :
           tofSignalDouble(Cluster(k1)[m1]) <= tofSignalDouble(Cluster(k2)[m2])

\* Two clusters, one of them with tracks of different times.
C5_Witness ==
  /\ pc = "done"
  /\ NumClusters >= 2
  /\ \E k \in 1..NumClusters : Anchor(k) < LastOf(k)

\* The candidates the loop of lines 361-376 forms from a sorted track list s,
\* starting at position a (1-based).
RECURSIVE InnerStop(_, _, _)
InnerStop(s, a, t) ==
  IF a > Len(s) \/ TooLate(tofSignalDouble(s[a]), t)
  THEN a
  ELSE InnerStop(s, a + 1, t)

\* The clusters as sequences of times.
RECURSIVE Candidates(_, _)
Candidates(s, a) ==
  IF a > Len(s)
  THEN <<>>
  ELSE LET stop == InnerStop(s, a, tofSignalDouble(s[a]))
       IN  <<(<<s[a]>> \o SubSeq(s, a, stop - 1))>> \o Candidates(s, stop)

TimesOnly(c) == [m \in 1..Len(c) |-> [time |-> tofSignalDouble(c[m])]]

RECURSIVE Flatten(_)
Flatten(cs) == IF cs = <<>> THEN <<>> ELSE Head(cs) \o Flatten(Tail(cs))

AllClusters == [k \in 1..NumClusters |-> TimesOnly(Cluster(k))]

\* The stepwise loop and the function Candidates agree.
CandidatesAgree == pc = "done" => AllClusters = Candidates(mMyTracks, 1)

\* C6: the clusters, put back into one sequence, sorted and clustered again,
\* come out as the same clusters.
C6_Idempotent ==
  pc = "done" =>
    \E again \in SortTracks(Flatten(AllClusters)) :
      Candidates(again, 1) = AllClusters

CursorBelowMatches ==
  (mUseFT0 /\ ScanTimeSorted) =>
    /\ pc \in {"scan", "process"} =>
         \A a \in 1..Len(ft0Sorted) :
           (firstTime <= BCtimeFT0(ft0Sorted[a])
              /\ BCtimeFT0(ft0Sorted[a]) <= lastTime) => ift0 < a
    /\ \A k \in 1..NumClusters - 1 : \A a \in 1..Len(ft0Sorted) :
         (InWindowOf(ft0Sorted[a], k) /\ InWindowOf(ft0Sorted[a], k + 1))
           => /\ \E m \in 1..Len(Matches(k)) :
                   Matches(k)[m] = Candidate(ft0Sorted[a])
              /\ \E m \in 1..Len(Matches(k + 1)) :
                   Matches(k + 1)[m] = Candidate(ft0Sorted[a])

C9_CursorMonotone ==
  [][/\ ift0' >= ift0
     /\ SortInputs => ift0' = 0]_vars

\* A cluster whose scan starts at the index an earlier cluster left behind.
C9_Witness ==
  /\ pc = "scan"
  /\ NumClusters >= 2
  /\ ift0 > 0
  /\ j = ift0
  /\ \A a \in 1..ift0 : BCtimeFT0(ft0Sorted[a]) < WindowStart(NumClusters)

\* C10: ift0 stays between 0 and the number of rec points, ift0 is advanced
\* at most once per rec point, and no rec point is skipped twice.
C10_AdvancesBounded ==
  /\ 0 <= ift0
  /\ ift0 <= Len(ft0Sorted)
  /\ Len(advances) <= Len(ft0Sorted)
  /\ \A a, b \in 1..Len(advances) : a # b => advances[a] # advances[b]

\* Every rec point was skipped, by more than one cluster.
C10_Witness ==
  /\ pc = "done"
  /\ NumClusters >= 3
  /\ Len(advances) = Len(ft0Sorted)
  /\ Len(advances) >= 2
  /\ Matches(2) # <<>>

\* C11: with the rec points in time order, after a cluster has been handed to
\* processEvent every rec point below ift0 is strictly before the start of the
\* cluster's window, the rec point at ift0 is not before it, and the window
\* starts of the clusters do not decrease, so the rec points below ift0 are
\* before every later window too.
C11_CursorInvariant ==
  (mUseFT0 /\ ScanTimeSorted /\ pc \in {"outer", "done"} /\ NumClusters > 0) =>
    /\ \A a \in 1..ift0 :
         BCtimeFT0(ft0Sorted[a]) < WindowStart(NumClusters)
    /\ ift0 < Len(ft0Sorted) =>
         BCtimeFT0(ft0Sorted[ift0 + 1]) >= WindowStart(NumClusters)
    /\ \A k \in 1..NumClusters - 1 : WindowStart(k) <= WindowStart(k + 1)

\* A second cluster has moved ift0 up to a rec point that lies exactly on the
\* start of its window; a rec point below ift0 was a candidate of the first.
C11_Witness ==
  /\ pc \in {"outer", "done"}
  /\ mUseFT0
  /\ ScanTimeSorted
  /\ NumClusters = 2
  /\ ift0 > 0
  /\ ift0 < Len(ft0Sorted)
  /\ BCtimeFT0(ft0Sorted[ift0 + 1]) = WindowStart(2)
  /\ Matches(1) # <<>>

\* C13: without selected tracks, without rec points or with useFT0 off,
\* monitorData has a next step until it returns; without selected tracks it
\* returns without a processEvent call; without rec points, or with useFT0
\* off, every candidate is still handed to processEvent, each with an empty
\* FT0 candidate list.
C13_EmptyInputs ==
  /\ (pc # "done" /\ (Len(mMyTracks) = 0 \/ ~mUseFT0 \/ Len(ft0Sorted) = 0))
       => ENABLED Next
  /\ (pc = "done" /\ Len(mMyTracks) = 0) => NumClusters = 0
  /\ (~mUseFT0 \/ Len(ft0Sorted) = 0) =>
       /\ \A k \in 1..NumClusters : Matches(k) = <<>>
       /\ pc \in {"scan", "process"} => ft0Cand = <<>>
       /\ pc = "done" => NumClusters = Len(Candidates(mMyTracks, 1))

\* useFT0 is on, there is no rec point, and two candidates were handed over.
C13_Witness ==
  /\ pc = "done"
  /\ mUseFT0
  /\ Len(ft0Sorted) = 0
  /\ NumClusters >= 2

\* C18: processEvent is called once for each candidate of the time-sorted
\* tracks, in the order of the candidates' first tracks, and the FT0 list of
\* each call holds rec points of that candidate's window only, each at most
\* once and in the order of ft0Sorted.
C18_OncePerCluster ==
  /\ pc = "done" => AllClusters = Candidates(mMyTracks, 1)
  /\ \A k \in 1..NumClusters - 1 : Anchor(k) <= Anchor(k + 1)
  /\ \A k \in 1..NumClusters :
       \E sel \in SUBSET (1..Len(ft0Sorted)) :
         /\ \A a \in sel : InWindowOf(ft0Sorted[a], k)
         /\ Matches(k) =
              LET hits == SelectSeq([a \in 1..Len(ft0Sorted) |-> a],
                                    LAMBDA a : a \in sel)
              IN  [m \in 1..Len(hits) |-> Candidate(ft0Sorted[hits[m]])]

\* The first candidate had an FT0 candidate that is outside the window of the
\* second, and the second has an FT0 candidate of its own.
C18_Witness ==
  /\ pc = "done"
  /\ NumClusters >= 2
  /\ Matches(1) # <<>>
  /\ Matches(2) # <<>>
  /\ Matches(1)[1] # Matches(2)[1]
  /\ \E a \in 1..Len(ft0Sorted) :
       InWindowOf(ft0Sorted[a], 1) /\ ~InWindowOf(ft0Sorted[a], 2)

\* C20: when the rec-point times that the FT0 loop computes are not in
\* non-decreasing order along ft0Sorted, no candidate is handed to
\* processEvent with a rec point of its window missing from its FT0 list
\* (monitorData has no other outcome than going on to its return).
C20_UnsortedFailsFast ==
  (mUseFT0 /\ ~ScanTimeSorted) =>
    \A k \in 1..NumClusters : Matches(k) = NaiveMatches(k)

\* ================================================= processEvent and reset
\* TaskFT0TOF::processEvent (lines 454-530) and TaskFT0TOF::reset (lines
\* 424-452).  A track is its momentum p in units of 0.1 GeV/c, an FT0
\* candidate is the bc of its interaction record, and a histogram is its
\* number of entries.

\* Largest number of tracks and of FT0 candidates of a processEvent call, and
\* largest number of processEvent calls.
MaxCandTracks == 2
MaxCandFT0 == 1
MaxEvents == 2

\* Line 53: MyFilter accepts p < 2.0 GeV/c.
P_FILTER_MAX == 20
\* Line 524: 0.7 < p < 1.1 GeV/c.
P_MID_MIN == 7
P_MID_MAX == 11
\* Line 458: isTOFst is mEventTimeError < 150.
EVTIME_ERROR_MAX == 150
\* Line 459: the 5000 ps added before the division by the BC length.
EVTIME_OFFSET == 5000

\* Momenta below 0.7, between 0.7 and 1.1, and above 2.0 GeV/c.
Momenta == {5, 9, 30}
\* BCs of the FT0 candidates: the first and the last BC of an orbit.
CandBCs == {0, LHCMaxBunches - 1}
\* What o2::tof::evTimeMaker may return (it is not part of this repository):
\* an event time shortly before BC 0, at BC 0 and one orbit later, with an
\* error below and above the isTOFst limit.
EvTimes ==
  {[mEventTime |-> t, mEventTimeError |-> e] :
     t \in {-6000, 0, LHCMaxBunches * BC_TIME_INPS}, e \in {100, 200}}

CandidateTracks ==
  {[k \in 1..Len(ps) |-> [p |-> ps[k]]] :
     ps \in SeqsUpTo(Momenta, MaxCandTracks) \ {<<>>}}
\* isValidTime(0), (1), (2) of a rec point (AC, A, C): all three valid, only
\* the A side, only the C side, none.
ValidTimes ==
  {<<TRUE, TRUE, TRUE>>, <<FALSE, TRUE, FALSE>>, <<FALSE, FALSE, TRUE>>,
   <<FALSE, FALSE, FALSE>>}
\* getCollisionTime(0), (1), (2) of a rec point, in ps.
CollisionTimes == {<<-40, 130, -210>>}
FT0Cands ==
  {[bc |-> b, valid |-> v, collisionTime |-> t] :
     b \in CandBCs, v \in ValidTimes, t \in CollisionTimes}
CandidateFT0 == SeqsUpTo(FT0Cands, MaxCandFT0)

\* o2::ft0::RecPoints::isValidTime and getCollisionTime, index 0, 1 or 2.
isValidTime(obj, n) == obj.valid[n + 1]
getCollisionTime(obj, n) == obj.collisionTime[n + 1]

\* Lines 51-54.
MyFilter(tr) == tr.p < P_FILTER_MAX

\* Line 458.
isTOFst(evtime) == evtime.mEventTimeError < EVTIME_ERROR_MAX

\* The conversion of a double to int and the int operator %, which both
\* truncate toward zero (b > 0).
TruncDiv(a, b) == IF a >= 0 THEN a \div b ELSE -((-a) \div b)
TruncRem(a, b) == a - b * TruncDiv(a, b)

\* Line 459 and line 478.
nBC(evtime) == TruncDiv(evtime.mEventTime + EVTIME_OFFSET, BC_TIME_INPS)
SameBC(evtime, obj) == TruncRem(nBC(evtime), LHCMaxBunches) = obj.bc

\* Line 460: the event time relative to its BC.
mEvTime_BC(evtime) == evtime.mEventTime - nBC(evtime) * BC_TIME_INPS

\* Lines 463-467: the array times (TOF, FT0-AC, FT0-A, FT0-C) of one FT0
\* candidate; the second and the third sub-timestamp are both gated by isC.
times(evtime, obj) ==
  LET isAC == isValidTime(obj, 0)
      isA == isValidTime(obj, 1)
      isC == isValidTime(obj, 2)
  IN  <<mEvTime_BC(evtime),
        IF isAC THEN getCollisionTime(obj, 0) ELSE 0,
        IF isC THEN getCollisionTime(obj, 1) ELSE 0,
        IF isC THEN getCollisionTime(obj, 2) ELSE 0>>

\* Lines 468-489: the histograms filled for one FT0 candidate.
FT0Fills(evtime, obj) ==
  IF isTOFst(evtime)
  THEN FT0Hists
         \cup (IF SameBC(evtime, obj) THEN SameBCHists ELSE {})
         \cup DeltaBCHists
  ELSE {}

\* Lines 513-528: the histograms filled for one track.
TrackFills(track) ==
  TrackHists
    \cup (IF track.p > P_MID_MIN /\ track.p < P_MID_MAX THEN MidPHists ELSE {})

\* The entries one processEvent call adds to histogram h.
Filled(h, evtime, trks, cands) ==
  Cardinality({k \in 1..Len(cands) : h \in FT0Fills(evtime, cands[k])})
    + Cardinality({k \in 1..Len(trks) : h \in TrackFills(trks[k])})

\* Lines 427-451: the histograms reset() resets.
ResetHists == TrackHists \cup MidPHists \cup FT0Hists \cup SameBCHists

\* After initialize (lines 147-172): every histogram is empty.
InitEvent ==
  /\ MonitorAtRest
  /\ HistAtRest
  /\ ReaderAtRest
  /\ TieAtRest
  /\ SelectAtRest
  /\ SourceAtRest

\* Lines 454-530.  evTimeMaker is called once with the tracks (line 457),
\* whatever MyFilter says about them; the FT0 loop derives the array times
\* and the same-BC test for each FT0 candidate; the track loop calls removeBias once per track,
\* each time from a fresh copy of the event time and its error (lines
\* 495-499), and fills the track histograms.
processEvent ==
  /\ nEvents < MaxEvents
  /\ \E trks \in CandidateTracks, cands \in CandidateFT0, evtime \in EvTimes :
       /\ hist' = [h \in HistNames |->
                     hist[h] + Filled(h, evtime, trks, cands)]
       /\ last' = [tracks |-> trks,
                   ft0Cand |-> cands,
                   evtime |-> evtime,
                   evTimeMaker |-> 1,
                   sameBC |-> [k \in 1..Len(cands) |->
                                 isTOFst(evtime) /\ SameBC(evtime, cands[k])],
                   times |-> [k \in 1..Len(cands) |-> times(evtime, cands[k])],
                   removeBias |-> [k \in 1..Len(trks) |->
                                     [track |-> k - 1,
                                      mEvTime |-> evtime.mEventTime,
                                      mEvTimeRes |-> evtime.mEventTimeError]]]
  /\ nEvents' = nEvents + 1
  /\ UNCHANGED <<monitorVars, readerVars, tieVars, selVars, sourceVars>>

\* Lines 424-452 (called by startOfActivity, lines 214-218).
reset ==
  /\ hist' = [h \in HistNames |-> IF h \in ResetHists THEN 0 ELSE hist[h]]
  /\ UNCHANGED <<nEvents, last>>
  /\ UNCHANGED <<monitorVars, readerVars, tieVars, selVars, sourceVars>>

NextEvent ==
  \/ processEvent
  \/ reset

SpecEvent == InitEvent /\ [][NextEvent]_vars

\* The tracks of the latest processEvent call that MyFilter accepts.
Eligible(trks) == {k \in 1..Len(trks) : MyFilter(trks[k])}

\* C12: a processEvent call for tracks that MyFilter rejects one and all does
\* not call the estimator, does not ask for an unbiased time of any track and
\* adds no entry to any histogram.
C12_NoEligibleSkipped ==
  [][(nEvents' = nEvents + 1 /\ Eligible(last'.tracks) = {})
       => /\ last'.evTimeMaker = 0
          /\ Len(last'.removeBias) = 0
          /\ hist' = hist]_vars

\* The BC number of an event time rounded down, and its remainder by the
\* number of BCs of an orbit taken between 0 and LHCMaxBunches - 1.
FloorBC(evtime) == (evtime.mEventTime + EVTIME_OFFSET) \div BC_TIME_INPS
FloorMod(a, b) == a % b

\* C14: for every FT0 candidate of a processEvent call with a good event time
\* (isTOFst), the same-BC histograms are filled exactly when the rounded-down
\* BC number of the event time, modulo LHCMaxBunches, is the candidate's bc.
C14_SameBCFloorMod ==
  last # NoCall =>
    \A k \in 1..Len(last.ft0Cand) :
      isTOFst(last.evtime) =>
        (last.sameBC[k]
           <=> FloorMod(FloorBC(last.evtime), LHCMaxBunches)
                 = last.ft0Cand[k].bc)

\* C16: after reset() every histogram created in initialize has no entries.
C16_ResetClearsAll ==
  [][reset => \A h \in HistNames : hist'[h] = 0]_vars

\* ============================================ the order of equal-time tracks
\* std::sort (line 349) is not stable: two runs on the same selected tracks
\* may leave tracks of equal TOF signal in different orders.  Here a track
\* carries its position in the selection (id) next to its TOF signal, both
\* outcomes are sorted orders of the same tracks, and the loop of lines
\* 361-376 forms the candidates of each.
InitTies ==
  /\ MonitorAtRest
  /\ HistAtRest
  /\ ReaderAtRest
  /\ SelectAtRest
  /\ SourceAtRest
  /\ tiePc = "input"
  /\ \E ts \in SeqsUpTo(TrackTimes, MaxTracks) :
       tieTracks = [k \in 1..Len(ts) |-> [id |-> k - 1, time |-> ts[k]]]
  /\ tieA = <<>>
  /\ tieB = <<>>

\* Lines 349-350, twice.
SortTwice ==
  /\ tiePc = "input"
  /\ tieA' \in SortTracks(tieTracks)
  /\ tieB' \in SortTracks(tieTracks)
  /\ tiePc' = "sorted"
  /\ UNCHANGED tieTracks
  /\ UNCHANGED <<monitorVars, histVars, readerVars, selVars, sourceVars>>

\* Lines 361-376 on each outcome.
ClusterBoth ==
  /\ tiePc = "sorted"
  /\ tieA' = Candidates(tieA, 1)
  /\ tieB' = Candidates(tieB, 1)
  /\ tiePc' = "clustered"
  /\ UNCHANGED tieTracks
  /\ UNCHANGED <<monitorVars, histVars, readerVars, selVars, sourceVars>>

NextTies ==
  \/ SortTwice
  \/ ClusterBoth

SpecTies == InitTies /\ [][NextTies]_vars

\* How often the track x is in the candidate c.
Count(c, x) == Cardinality({m \in 1..Len(c) : c[m] = x})

SameMultiset(c, d) ==
  \A k \in 1..Len(tieTracks) : Count(c, tieTracks[k]) = Count(d, tieTracks[k])

\* C15: whatever order the sort leaves tracks of equal TOF signal in, the
\* number of candidates is the same and the k-th candidate holds the same
\* tracks, each as often.
C15_TieOrderIndependent ==
  tiePc = "clustered" =>
    /\ Len(tieA) = Len(tieB)
    /\ \A k \in 1..Len(tieA) : SameMultiset(tieA[k], tieB[k])

\* ================================================ MFTClustersRootFileReader
\* Modules/MFT/src/runMFTClustersRootFileReader.cxx: init (lines 51-79) and
\* run (lines 83-130).  The file is the list of its TFs, a TF is the list of
\* its ROF records (getFirstEntry, getNEntries), and the clusters of a TF are
\* their positions 0, 1, ... in the cluster branch.

\* Largest number of TFs of the file and of ROFs of a TF.
MaxTF == 2
MaxROF == 2

\* Numbers of clusters of a ROF.
ROFSizes == {0, 2}

RECURSIVE SumTo(_, _)
SumTo(sizes, k) == IF k = 0 THEN 0 ELSE sizes[k] + SumTo(sizes, k - 1)

\* The ROF records of a TF whose ROFs have these sizes: each ROF starts where
\* the one before it ends.
ROFsOf(sizes) ==
  [k \in 1..Len(sizes) |->
     [firstEntry |-> SumTo(sizes, k - 1), nEntries |-> sizes[k]]]

TFs == {ROFsOf(sizes) : sizes \in SeqsUpTo(ROFSizes, MaxROF)}
Files == SeqsUpTo(TFs, MaxTF)

\* What a read behind the end of rofs (lines 99 and 103) yields when the
\* process goes on.
Garbage == "garbage"

\* After init (lines 51-79): the tree is attached and mNumberOfTF read; a
\* file without TFs (or one that cannot be opened) ends the stream in init.
InitReader ==
  /\ MonitorAtRest
  /\ HistAtRest
  /\ TieAtRest
  /\ SelectAtRest
  /\ SourceAtRest
  /\ mftFile \in Files
  /\ mNumberOfTF = Len(mftFile)
  /\ mCurrentTF = 0
  /\ mCurrentROF = 0
  /\ mNumberOfROF = 0
  /\ mftOut = <<>>
  /\ mftState = IF Len(mftFile) = 0 THEN "ended" ELSE "running"

\* Lines 87-92: all TFs read, endOfStream and readyToQuit, nothing published.
RunEndOfFile ==
  /\ mftState = "running"
  /\ mCurrentTF = mNumberOfTF
  /\ mftState' = "ended"
  /\ UNCHANGED <<mftFile, mNumberOfTF, mCurrentTF, mCurrentROF, mNumberOfROF,
                 mftOut>>
  /\ UNCHANGED <<monitorVars, histVars, tieVars, selVars, sourceVars>>

\* Lines 123-129: the ROF counter, and the TF counter after the last ROF.
NextROF(n) == IF mCurrentROF + 1 = n THEN 0 ELSE mCurrentROF + 1
NextTF(n) == IF mCurrentROF + 1 = n THEN mCurrentTF + 1 ELSE mCurrentTF

\* Lines 94-129 for a ROF index inside rofs: publish the ROF record and the
\* clusters [index, lastIndex), then move the counters.
RunPublish ==
  /\ mftState = "running"
  /\ mCurrentTF # mNumberOfTF
  /\ LET rofs == mftFile[mCurrentTF + 1]
     IN  /\ mCurrentROF < Len(rofs)
         /\ LET rof == rofs[mCurrentROF + 1]
                index == rof.firstEntry
                lastIndex == index + rof.nEntries
            IN  mftOut' = Append(mftOut,
                            [tf |-> mCurrentTF,
                             rof |-> rof,
                             clusters |-> [c \in 1..(lastIndex - index) |->
                                             index + c - 1]])
         /\ mNumberOfROF' = Len(rofs)
         /\ mCurrentROF' = NextROF(Len(rofs))
         /\ mCurrentTF' = NextTF(Len(rofs))
  /\ UNCHANGED <<mftFile, mNumberOfTF, mftState>>
  /\ UNCHANGED <<monitorVars, histVars, tieVars, selVars, sourceVars>>

\* Lines 99 and 103 for a ROF index behind the end of rofs (a TF without
\* ROFs): the read is undefined; the process may stop there ...
RunOutOfRangeCrash ==
  /\ mftState = "running"
  /\ mCurrentTF # mNumberOfTF
  /\ ~(mCurrentROF < Len(mftFile[mCurrentTF + 1]))
  /\ mftState' = "crashed"
  /\ mNumberOfROF' = Len(mftFile[mCurrentTF + 1])
  /\ UNCHANGED <<mftFile, mNumberOfTF, mCurrentTF, mCurrentROF, mftOut>>
  /\ UNCHANGED <<monitorVars, histVars, tieVars, selVars, sourceVars>>

\* ... or go on with whatever was read and publish it (mCurrentROF is capped
\* at MaxROF here; in the program it grows without bound).
RunOutOfRangePublish ==
  /\ mftState = "running"
  /\ mCurrentTF # mNumberOfTF
  /\ ~(mCurrentROF < Len(mftFile[mCurrentTF + 1]))
  /\ mCurrentROF < MaxROF
  /\ mftOut' = Append(mftOut,
                 [tf |-> mCurrentTF, rof |-> Garbage, clusters |-> Garbage])
  /\ mNumberOfROF' = Len(mftFile[mCurrentTF + 1])
  /\ mCurrentROF' = NextROF(Len(mftFile[mCurrentTF + 1]))
  /\ mCurrentTF' = NextTF(Len(mftFile[mCurrentTF + 1]))
  /\ UNCHANGED <<mftFile, mNumberOfTF, mftState>>
  /\ UNCHANGED <<monitorVars, histVars, tieVars, selVars, sourceVars>>

run ==
  \/ RunEndOfFile
  \/ RunPublish
  \/ RunOutOfRangeCrash
  \/ RunOutOfRangePublish

NextReader == run

SpecReader == InitReader /\ [][NextReader]_vars

\* The ROFs of the file in file order, each with its clusters.
ROFsInOrder(t) ==
  LET rofs == mftFile[t]
  IN  [r \in 1..Len(rofs) |->
         [tf |-> t - 1,
          rof |-> rofs[r],
          clusters |-> [c \in 1..rofs[r].nEntries |->
                          rofs[r].firstEntry + c - 1]]]

RECURSIVE AllROFs(_)
AllROFs(t) == IF t = 0 THEN <<>> ELSE AllROFs(t - 1) \o ROFsInOrder(t)

\* C17: the run calls publish the ROFs of the file in file order, one ROF
\* with exactly its clusters per call and nothing else; no call fails; and
\* the call that finds all TFs read, which publishes nothing and ends the
\* stream, comes only when every ROF of the file has been published.
C17_EveryROFOnce ==
  /\ mftState # "crashed"
  /\ Len(mftOut) <= Len(AllROFs(Len(mftFile)))
  /\ \A m \in 1..Len(mftOut) : mftOut[m] = AllROFs(Len(mftFile))[m]
  /\ (mftState = "ended" \/ mCurrentTF = mNumberOfTF)
       => mftOut = AllROFs(Len(mftFile))

\* C21: once ft0Sorted is sorted by bc2ns (absolute orbit and bc), the times
\* the FT0 loop computes from the uint32_t orbit difference do not decrease
\* along it, rec points of an orbit before firstTForbit included.
C21_ScanOrderAgrees ==
  pc # "sort" =>
    \A a \in 1..Len(ft0Sorted) - 1 :
      /\ bc2ns(ft0Sorted[a]) <= bc2ns(ft0Sorted[a + 1])
      /\ BCtimeFT0(ft0Sorted[a]) <= BCtimeFT0(ft0Sorted[a + 1])

\* C22: for every FT0 candidate of a processEvent call with a good event time
\* (isTOFst), the AC, A and C times that enter the histograms are the rec
\* point's own collision times where isValidTime of the same index is set,
\* and 0 where it is not.
C22_OwnValidityFlag ==
  last # NoCall =>
    \A k \in 1..Len(last.ft0Cand) :
      isTOFst(last.evtime) =>
        \A n \in 0..2 :
          last.times[k][n + 2] =
            IF isValidTime(last.ft0Cand[k], n)
            THEN getCollisionTime(last.ft0Cand[k], n)
            ELSE 0


\* ------------------------------------------- monitorData: track selection
\* Lines 226-339 of TaskFT0TOF.cxx.  initialize (lines 127-144) accepts a
\* source list in which each TOF-matched source is loaded exactly when its
\* unmatched partner is, so a configuration is the set of loaded TOF-matched
\* sources.  A block runs when its source is loaded: it assigns member spans
\* from the timeframe and, for every match, indexes member spans.  A span
\* never assigned is empty: indexing it ends the process (bounds check of
\* gsl::span) or reads whatever lies there.
MaxTimeframes == 2

InitSelect ==
  /\ MonitorAtRest
  /\ HistAtRest
  /\ ReaderAtRest
  /\ TieAtRest
  /\ SourceAtRest
  /\ mSrc \in SUBSET TOFSources
  /\ selPc = "idle"
  /\ mTF = -1
  /\ assigned = [c \in Containers |-> -1]
  /\ hasMatch = [s \in TOFSources |-> FALSE]
  /\ indexed = {}

\* Lines 227-247: the next timeframe arrives.
monitorDataStart ==
  /\ selPc = "idle"
  /\ mTF < MaxTimeframes - 1
  /\ mTF' = mTF + 1
  /\ hasMatch' \in [TOFSources -> BOOLEAN]
  /\ selPc' = "TPCTOF"
  /\ UNCHANGED <<mSrc, assigned, indexed>>
  /\ UNCHANGED <<monitorVars, histVars, readerVars, tieVars, sourceVars>>

\* One "if (mRecoCont.isTrackSourceLoaded(src))" block: the assignments in
\* front of its loop, then the reads of the loop body; next is the block
\* that follows.
SelectBlock(src, assigns, reads, next) ==
  /\ IF src \in mSrc
       THEN /\ assigned' = [c \in Containers |->
                              IF c \in assigns THEN mTF ELSE assigned[c]]
            /\ indexed' =
                 IF hasMatch[src]
                   THEN indexed \cup
                          {[container |-> c, assignedIn |-> assigned'[c], tf |-> mTF] :
                             c \in reads}
                   ELSE indexed
            /\ selPc' \in
                 {next} \cup
                   (IF hasMatch[src] /\ \E c \in reads : assigned'[c] = -1
                      THEN {"crashed"}
                      ELSE {})
       ELSE /\ UNCHANGED <<assigned, indexed>>
            /\ selPc' = next
  /\ UNCHANGED <<mSrc, mTF, hasMatch>>
  /\ UNCHANGED <<monitorVars, histVars, readerVars, tieVars, sourceVars>>

\* Lines 250-271.
SelectTPCTOF ==
  /\ selPc = "TPCTOF"
  /\ SelectBlock("TPCTOF", {"mTPCTracks"}, {"mTPCTracks"}, "ITSTPCTOF")

\* Lines 274-294.
SelectITSTPCTOF ==
  /\ selPc = "ITSTPCTOF"
  /\ SelectBlock("ITSTPCTOF", {"mITSTPCTracks", "mTPCTracks"},
                 {"mITSTPCTracks", "mTPCTracks"}, "TPCTRDTOF")

\* Lines 297-316.
SelectTPCTRDTOF ==
  /\ selPc = "TPCTRDTOF"
  /\ SelectBlock("TPCTRDTOF", {"mTPCTRDTracks"},
                 {"mTPCTRDTracks", "mTPCTracks"}, "ITSTPCTRDTOF")

\* Lines 319-339.
SelectITSTPCTRDTOF ==
  /\ selPc = "ITSTPCTRDTOF"
  /\ SelectBlock("ITSTPCTRDTOF", {"mITSTPCTRDTracks"},
                 {"mITSTPCTRDTracks", "mITSTPCTracks", "mTPCTracks"}, "idle")

NextSelect ==
  \/ monitorDataStart
  \/ SelectTPCTOF
  \/ SelectITSTPCTOF
  \/ SelectTPCTRDTOF
  \/ SelectITSTPCTRDTOF

SpecSelect == InitSelect /\ [][NextSelect]_vars

\* C23: every track container indexed during the selection of a monitorData
\* call was assigned from the current timeframe earlier in the same call, for
\* every combination of loaded sources that initialize accepts.
C23_IndexedAfterAssigned ==
  \A r \in indexed : r.assignedIn = r.tf


\* ------------------------------------------------ MFT reader: termination
\* The reader is a source device: the framework calls run again and again
\* until readyToQuit, so a run call that can happen does happen.
FairSpecReader == SpecReader /\ WF_vars(NextReader)

\* C24: for every file with finitely many TFs, TFs without ROFs included,
\* the reader reaches the end of the file and signals endOfStream after
\* finitely many run calls.
C24_ReachesEndOfFile == <>(mftState = "ended")


\* ----------------------------------------------------- RootFileSource::run
\* Framework/src/RootFileSource.cxx, lines 39-102.  The file is a zombie, not
\* open, or open with a list of top-level keys; a key either names a
\* directory, which is a list of stored objects, or something GetDirectory
\* returns no directory for.  A stored
\* object is one Get returns nullptr for, an object of another class, or a
\* MonitorObjectCollection with a name.
MaxDetectors == 1
MaxObjects == 2

ObjectNames == {"TaskA", "TaskB"}
NoDirectory == [isDirectory |-> FALSE, keys |-> <<>>]
StoredObjects ==
  {[class |-> "nullptr", name |-> "TaskA"], [class |-> "TObject", name |-> "TaskA"]}
    \cup {[class |-> "MonitorObjectCollection", name |-> n] : n \in ObjectNames}
Directories ==
  {[isDirectory |-> TRUE, keys |-> objs] : objs \in SeqsUpTo(StoredObjects, MaxObjects)}
RootFiles ==
  {[status |-> st, keys |-> <<>>] : st \in {"zombie", "closed"}}
    \cup {[status |-> "open", keys |-> ks] :
            ks \in SeqsUpTo(Directories \cup {NoDirectory}, MaxDetectors)}

InitSource ==
  /\ MonitorAtRest
  /\ HistAtRest
  /\ ReaderAtRest
  /\ TieAtRest
  /\ SelectAtRest
  /\ rootFile \in RootFiles
  /\ allowedOutputs \in SUBSET ObjectNames
  /\ srcPc = "open"
  /\ iKey = 0
  /\ iObj = 0
  /\ snapshots = <<>>
  /\ handled = <<>>

\* Lines 47-50.
ThrowZombie ==
  /\ srcPc = "open"
  /\ rootFile.status = "zombie"
  /\ srcPc' = "thrown"
  /\ UNCHANGED <<rootFile, allowedOutputs, iKey, iObj, snapshots, handled>>
  /\ UNCHANGED <<monitorVars, histVars, readerVars, tieVars, selVars>>

\* Lines 51-53.
ThrowNotOpen ==
  /\ srcPc = "open"
  /\ rootFile.status = "closed"
  /\ srcPc' = "thrown"
  /\ UNCHANGED <<rootFile, allowedOutputs, iKey, iObj, snapshots, handled>>
  /\ UNCHANGED <<monitorVars, histVars, readerVars, tieVars, selVars>>

\* Lines 47-56: the file is open, the iteration over its keys starts.
OpenFile ==
  /\ srcPc = "open"
  /\ rootFile.status = "open"
  /\ srcPc' = "keys"
  /\ UNCHANGED <<rootFile, allowedOutputs, iKey, iObj, snapshots, handled>>
  /\ UNCHANGED <<monitorVars, histVars, readerVars, tieVars, selVars>>

\* Lines 58-64: a key without a directory is skipped.
SkipNoDirectory ==
  /\ srcPc = "keys"
  /\ iKey < Len(rootFile.keys)
  /\ ~rootFile.keys[iKey + 1].isDirectory
  /\ iKey' = iKey + 1
  /\ UNCHANGED <<rootFile, allowedOutputs, srcPc, iObj, snapshots, handled>>
  /\ UNCHANGED <<monitorVars, histVars, readerVars, tieVars, selVars>>

\* Lines 58-67: the next directory, in front of its first key.
EnterDirectory ==
  /\ srcPc = "keys"
  /\ iKey < Len(rootFile.keys)
  /\ rootFile.keys[iKey + 1].isDirectory
  /\ iKey' = iKey + 1
  /\ iObj' = 0
  /\ srcPc' = "dir"
  /\ UNCHANGED <<rootFile, allowedOutputs, snapshots, handled>>
  /\ UNCHANGED <<monitorVars, histVars, readerVars, tieVars, selVars>>

\* The directory of the current key (line 60) and the object of the key the
\* inner loop is at (line 69).
detDir == rootFile.keys[iKey].keys
storedTObj == detDir[iObj + 1]
AtObject == srcPc = "dir" /\ iObj < Len(detDir)

\* Lines 69-70 and 94: Get returned nullptr.
SkipNull ==
  /\ AtObject
  /\ storedTObj.class = "nullptr"
  /\ iObj' = iObj + 1
  /\ handled' = Append(handled, [object |-> storedTObj, outcome |-> "nullptr"])
  /\ UNCHANGED <<rootFile, allowedOutputs, srcPc, iKey, snapshots>>
  /\ UNCHANGED <<monitorVars, histVars, readerVars, tieVars, selVars>>

\* Lines 71-76: the dynamic_cast fails, the object is deleted and skipped.
SkipFailedCast ==
  /\ AtObject
  /\ storedTObj.class = "TObject"
  /\ iObj' = iObj + 1
  /\ handled' = Append(handled, [object |-> storedTObj, outcome |-> "notMOC"])
  /\ UNCHANGED <<rootFile, allowedOutputs, srcPc, iKey, snapshots>>
  /\ UNCHANGED <<monitorVars, histVars, readerVars, tieVars, selVars>>

\* Lines 78-86: the name is not among the declared output bindings.
SkipUndeclared ==
  /\ AtObject
  /\ storedTObj.class = "MonitorObjectCollection"
  /\ storedTObj.name \notin allowedOutputs
  /\ iObj' = iObj + 1
  /\ handled' = Append(handled, [object |-> storedTObj, outcome |-> "undeclared"])
  /\ UNCHANGED <<rootFile, allowedOutputs, srcPc, iKey, snapshots>>
  /\ UNCHANGED <<monitorVars, histVars, readerVars, tieVars, selVars>>

Publish_WithoutNameCheck ==
  /\ AtObject
  /\ storedTObj.class = "MonitorObjectCollection"
  /\ iObj' = iObj + 1
  /\ snapshots' = Append(snapshots, storedTObj.name)
  /\ handled' = Append(handled, [object |-> storedTObj, outcome |-> "published"])
  /\ UNCHANGED <<rootFile, allowedOutputs, srcPc, iKey>>
  /\ UNCHANGED <<monitorVars, histVars, readerVars, tieVars, selVars>>

\* Lines 88-94: snapshot under the object's name, then delete.
Publish ==
  /\ AtObject
  /\ storedTObj.class = "MonitorObjectCollection"
  /\ storedTObj.name \in allowedOutputs
  /\ iObj' = iObj + 1
  /\ snapshots' = Append(snapshots, storedTObj.name)
  /\ handled' = Append(handled, [object |-> storedTObj, outcome |-> "published"])
  /\ UNCHANGED <<rootFile, allowedOutputs, srcPc, iKey>>
  /\ UNCHANGED <<monitorVars, histVars, readerVars, tieVars, selVars>>

\* Line 68: the inner loop is behind the last key of the directory.
LeaveDirectory ==
  /\ srcPc = "dir"
  /\ iObj = Len(detDir)
  /\ srcPc' = "keys"
  /\ UNCHANGED <<rootFile, allowedOutputs, iKey, iObj, snapshots, handled>>
  /\ UNCHANGED <<monitorVars, histVars, readerVars, tieVars, selVars>>

\* Lines 97-101: Close, endOfStream, readyToQuit.
Quit ==
  /\ srcPc = "keys"
  /\ iKey = Len(rootFile.keys)
  /\ srcPc' = "quit"
  /\ UNCHANGED <<rootFile, allowedOutputs, iKey, iObj, snapshots, handled>>
  /\ UNCHANGED <<monitorVars, histVars, readerVars, tieVars, selVars>>

NextSource ==
  \/ ThrowZombie
  \/ ThrowNotOpen
  \/ OpenFile
  \/ SkipNoDirectory
  \/ EnterDirectory
  \/ SkipNull
  \/ SkipFailedCast
  \/ SkipUndeclared
  \/ Publish
  \/ LeaveDirectory
  \/ Quit

SpecSource == InitSource /\ [][NextSource]_vars

\* The stored objects of the first k keys, in file order.
RECURSIVE ObjectsOfKeys(_)
ObjectsOfKeys(k) ==
  IF k = 0
    THEN <<>>
    ELSE ObjectsOfKeys(k - 1) \o
           (IF rootFile.keys[k].isDirectory THEN rootFile.keys[k].keys ELSE <<>>)

\* The stored objects the loops have gone through so far.
ObjectsPassed ==
  IF srcPc = "dir"
    THEN ObjectsOfKeys(iKey - 1) \o SubSeq(detDir, 1, iObj)
    ELSE ObjectsOfKeys(iKey)

Publishable(obj) ==
  obj.class = "MonitorObjectCollection" /\ obj.name \in allowedOutputs

RECURSIVE NamesOfPublishable(_)
NamesOfPublishable(objs) ==
  IF objs = <<>>
    THEN <<>>
    ELSE (IF Publishable(Head(objs)) THEN <<Head(objs).name>> ELSE <<>>) \o
           NamesOfPublishable(Tail(objs))

\* C25: run publishes a stored object only if it is a MonitorObjectCollection
\* whose name equals a declared output binding; an object that fails the
\* cast or the name check is skipped, and the objects behind it are still
\* gone through: what has been published is at every moment exactly the
\* publishable ones among the objects passed, in file order, and at the end
\* every object of every directory has been passed.
C25_PublishesOnlyDeclaredCollections ==
  srcPc \in {"keys", "dir", "quit"} =>
    /\ snapshots = NamesOfPublishable(ObjectsPassed)
    /\ Len(handled) = Len(ObjectsPassed)
    /\ \A k \in 1..Len(handled) :
         /\ handled[k].object = ObjectsPassed[k]
         /\ handled[k].outcome = "published" <=> Publishable(handled[k].object)
    /\ srcPc = "quit" => ObjectsPassed = ObjectsOfKeys(Len(rootFile.keys))

\* A finished run in which an object that failed the cast or the name check
\* was followed by a published one.
C25_Witness ==
  /\ srcPc = "quit"
  /\ \E a, b \in 1..Len(handled) :
       /\ a < b
       /\ handled[a].outcome \in {"notMOC", "undeclared"}
       /\ handled[b].outcome = "published"

====
